---- MODULE Spec2Model ----
(***************************************************************************)
(* Publish/subscribe lifecycle of the communication component              *)
(* (src/js/src/communication.js) of accelerator-core.                      *)
(*                                                                         *)
(* The event loop is single threaded: one action is one handler run to     *)
(* completion together with the promise reactions (microtasks) it causes.  *)
(* The SDK callbacks (OT.initPublisher, session.subscribe) are separate    *)
(* actions, fired by the environment with success or with an error.        *)
(***************************************************************************)
EXTENDS Integers, Sequences, FiniteSets, TLC

\* ------------------------------------------------------------------ bounds
NumStreams == 2   \* remote stream ids 1..NumStreams, each created at most once
MaxOps == 4       \* operations the host and the session invoke in one run
                  \* (the SDK callbacks they cause are not counted)

\* --------------------------------------------------------------- constants
NetworkErrorCode == 1010   \* the SDK error code mapped to the network hint

Streams == 1..NumStreams

\* stream.videoType of the remote streams of the model: odd ids are camera
\* streams, even ids are screen streams.
videoType(s) == IF s % 2 = 1 THEN "camera" ELSE "screen"

\* The SDK error objects the callback of OT.initPublisher may carry.
SdkErrors ==
  { [code |-> NetworkErrorCode, message |-> "OT: unable to connect"],
    [code |-> 1500, message |-> "OT: unable to publish"] }

\* The SDK error object the callback of session.subscribe may carry.
SubscribeError == [code |-> 1600, message |-> "OT: unable to subscribe"]

NoError == [code |-> 0, message |-> ""]

\* The values of the options object that validateOptions reads.
\* autoSubscribe "absent" is an options object without that property.
cameraStreams(strs) == { s \in strs : videoType(s) = "camera" }

\* options.connectionLimit: none (0), or up to the camera streams there can be.
MaxLimit == Cardinality(cameraStreams(Streams))

Options ==
  [ connectionLimit : 0..MaxLimit, autoSubscribe : {"absent", "true", "false"} ]

VARIABLES
  connectionLimit,  \* module variable connectionLimit (0 is null)
  autoSubscribe,    \* module variable autoSubscribe
  active,           \* module variable active
  streams,          \* state: the stream registry (set of stream ids)
  created,          \* stream ids the session has ever announced
  streamMap,        \* state: stream id -> subscriber id (0: no entry)
  publishers,       \* state: [camera: set of ids, screen: set of ids]
  subscribers,      \* state: set of [id, stream] subscriber handles
  published,        \* session: publisher ids published to the session
  calls,            \* one record per startCall invocation; the publisher
                    \* startCall number c creates has id c
  subOps,           \* the session.subscribe calls whose callback has not
                    \* fired yet: [stream, owner, id of the subscriber]
  invoked,          \* host and session operations invoked so far
  hist,             \* history: issued, the registry streams session.subscribe
                    \* was called for; announced, those a subscribeTo event
                    \* was emitted for; ended, whether endCall has run;
                    \* endedCalls, the startCall invocations before the last
                    \* endCall; quiet, no startCall, subscribe or publisher
                    \* of another component since the last endCall
  effects           \* what the last handler did, in order: events
                    \* triggered, SDK and state calls, log entries

vars ==
  << connectionLimit, autoSubscribe, active, streams, created, streamMap,
     publishers, subscribers, published, calls, subOps, invoked, hist,
     effects >>

\* ----------------------------------------------------------------- helpers
\* id: the stream of a stream effect, the call number of a startCall effect.
\* msg: the message of an error event or of a logged message; error: the
\* error a promise is rejected with.
Effect(name, id, msg) ==
  [name |-> name, id |-> id, msg |-> msg, error |-> NoError]

Event(name, id) == Effect(name, id, "")

Reject(name, id, error) ==
  [name |-> name, id |-> id, msg |-> "", error |-> error]

\* util.properCase on the two video types.
properCase(type) == IF type = "camera" THEN "Camera" ELSE "Screen"

\* validateOptions: the configuration the module keeps of an options object.
validateOptions(options) ==
  [ connectionLimit |-> options.connectionLimit,
    autoSubscribe |-> IF options.autoSubscribe = "absent"
                        THEN TRUE
                        ELSE options.autoSubscribe = "true" ]

\* ableToJoin with `<=` for `<`.
ableToJoin_Mutant(limit, strs) ==
  IF limit = 0 THEN TRUE ELSE Cardinality(cameraStreams(strs)) <= limit

\* ableToJoin: no limit, or fewer camera streams than the limit.
ableToJoin(limit, strs) ==
  IF limit = 0 THEN TRUE ELSE Cardinality(cameraStreams(strs)) < limit


Log(action, variation, id) ==
  Effect("log." \o action \o "." \o variation, id, "")

LimitMessage == "Session has reached its connection limit"

NetworkMessage == "Check your network connection"

\* publish's catch handler without the special case.
errorMessage_Mutant(error) == error.message

\* publish, the catch handler: the message of the error event.
errorMessage(error) ==
  IF error.code = NetworkErrorCode THEN NetworkMessage ELSE error.message

\* ------------------------------------------- the state collaborator (state.js)
\* state.addSubscriber: registers the handle and maps its stream to it.
addSubscriber(subs, sub) == subs \cup {sub}

addToStreamMap(map, sub) == [map EXCEPT ![sub.stream] = sub.id]

\* state.removeSubscriber: drops the handle and the entry of its stream.
removeSubscriber(subs, sub) == subs \ {sub}

removeFromStreamMap(map, sub) ==
  IF map[sub.stream] = sub.id THEN [map EXCEPT ![sub.stream] = 0] ELSE map

\* state.removeStream: drops the stream, its map entry and its subscriber.
removeStreamSubscribers(subs, map, s) ==
  { sub \in subs : ~(sub.stream = s /\ sub.id = map[s]) }

\* state.removeAllPublishers / state.removeAllSubscribers.
NoPublishers == [camera |-> {}, screen |-> {}]

EmptyStreamMap == [s \in Streams |-> 0]

\* -------------------------------------------------------------- subscribe()
\* The id of the subscriber handle a new session.subscribe(stream s) returns:
\* one no live handle of that stream has.
newSubscriberId(ops, s) ==
  LET used == { op.id : op \in { o \in ops : o.stream = s } }
              \cup { sub.id : sub \in { x \in subscribers : x.stream = s } }
  IN CHOOSE k \in 1..(Cardinality(used) + 1) :
       k \notin used /\ \A j \in 1..(k - 1) : j \in used

\* One subscribe(stream) call, threaded through an accumulator of the pending
\* session.subscribe calls and the effects so far.
\* owner: 0 is the host or the streamCreated listener, c >= 1 is startCall
\* number c.
subscribe(acc, s, owner) ==
  LET fx == Append(acc.fx, Log("subscribe", "attempt", s))
  IN IF streamMap[s] # 0
       THEN [acc EXCEPT !.fx = Append(fx, Event("subscribe.resolve", s))]
       ELSE [ ops |-> acc.ops \cup
                        { [ stream |-> s, owner |-> owner,
                            id |-> newSubscriberId(acc.ops, s) ] },
              fx |-> Append(fx, Event("session.subscribe", s)) ]

Min(S) == CHOOSE x \in S : \A y \in S : x <= y

\* initialSubscriptions that holds the first stream only.
subscribeAll_Mutant(acc, S, owner) ==
  IF S = {} THEN acc ELSE subscribe(acc, Min(S), owner)

\* Object.keys(streams).map(id => subscribe(streams[id])), in key order.
RECURSIVE subscribeAll(_, _, _)
subscribeAll(acc, S, owner) ==
  IF S = {} THEN acc
  ELSE subscribeAll(subscribe(acc, Min(S), owner), S \ {Min(S)}, owner)

\* The pending session.subscribe calls startCall number c issued.
OpsOf(ops, c) == { op \in ops : op.owner = c }

\* Promise.all that is fulfilled as soon as one subscription is.
allFulfilled_Mutant(ops, c) == TRUE

\* Promise.all(initialSubscriptions), none of which has been rejected, is
\* fulfilled: none of them is pending.
allFulfilled(ops, c) == OpsOf(ops, c) = {}

\* publish: of the publish() promise; all: of Promise.all(initialSubscriptions);
\* promise: of the promise startCall returned.
NewCall ==
  [ publish |-> "none", all |-> "none", promise |-> "pending",
    started |-> FALSE ]

\* startCall, the reaction to Promise.all: emit startCall, mark active, resolve.
callStarted(call) ==
  [call EXCEPT !.all = "resolved", !.promise = "resolved", !.started = TRUE]

NoHistory ==
  [ issued |-> {}, announced |-> {}, ended |-> FALSE, endedCalls |-> 0,
    quiet |-> FALSE ]

\* The streams of the session.subscribe calls issued on the way from ops to
\* newOps.
issuedStreams(ops, newOps) == { op.stream : op \in newOps \ ops }

\* ------------------------------------------------------------------- Init
Init ==
  \E options \in Options :
    /\ connectionLimit = validateOptions(options).connectionLimit
    /\ autoSubscribe = validateOptions(options).autoSubscribe
    /\ active = FALSE
    /\ streams = {}
    /\ created = {}
    /\ streamMap = EmptyStreamMap
    /\ publishers = NoPublishers
    /\ subscribers = {}
    /\ published = {}
    /\ calls = << >>
    /\ subOps = {}
    /\ invoked = 0
    /\ hist = NoHistory
    /\ effects = << >>

\* ---------------------------------------------------------------- startCall
\* The host calls startCall(); the new call is number Len(calls) + 1.
StartCall ==
  /\ invoked < MaxOps
  /\ invoked' = invoked + 1
  /\ hist' = [hist EXCEPT !.quiet = FALSE]
  /\ LET c == Len(calls) + 1
     IN IF ~ableToJoin(connectionLimit, streams)
          THEN /\ effects' = << Log("startCall", "attempt", c),
                                Effect("error", c, LimitMessage),
                                Log("startCall", "fail", c),
                                Reject("startCall.reject", c,
                                  [code |-> 0, message |-> LimitMessage]) >>
               /\ calls' = Append(calls, [NewCall EXCEPT !.promise = "rejected"])
          ELSE /\ effects' = << Log("startCall", "attempt", c),
                                Event("OT.initPublisher", c) >>
               /\ calls' = Append(calls, [NewCall EXCEPT !.publish = "pending"])
  /\ UNCHANGED << connectionLimit, autoSubscribe, active, streams, created,
                  streamMap, publishers, subscribers, published, subOps >>

\* The callback of OT.initPublisher of startCall number c fires with an error:
\* publish's catch handler runs; nothing reacts to the rejection of publish().
PublisherFailed(c, error) ==
  /\ UNCHANGED << invoked, hist >>
  /\ c \in DOMAIN calls
  /\ calls[c].publish = "pending"
  /\ effects' = << Log("startCall", "fail", c),
                   Effect("error", c, errorMessage(error)),
                   Reject("publish.reject", c, error) >>
  /\ calls' = [calls EXCEPT ![c].publish = "rejected"]
  /\ UNCHANGED << connectionLimit, autoSubscribe, active, streams, created,
                  streamMap, publishers, subscribers, published, subOps >>

\* The callback of OT.initPublisher of startCall number c fires with success:
\* publish's then handler, then startCall's then handler, then (when no
\* subscription is left pending) the reaction to Promise.all.
PublisherCreated(c) ==
  /\ UNCHANGED invoked
  /\ c \in DOMAIN calls
  /\ calls[c].publish = "pending"
  /\ LET acc == subscribeAll(
                  [ ops |-> subOps,
                    fx |-> << Event("state.addPublisher", c),
                              Event("session.publish", c),
                              Log("startCall", "success", c),
                              Event("publish.resolve", c) >> ],
                  streams, c)
         call == [calls[c] EXCEPT !.publish = "resolved", !.all = "pending"]
     IN /\ publishers' = [publishers EXCEPT !.camera = @ \cup {c}]
        /\ published' = published \cup {c}
        /\ subOps' = acc.ops
        /\ hist' = [hist EXCEPT !.issued = @ \cup issuedStreams(subOps, acc.ops)]
        /\ IF allFulfilled(acc.ops, c)
             THEN /\ effects' = acc.fx \o << Event("startCall", c),
                                            Event("startCall.resolve", c) >>
                  /\ active' = TRUE
                  /\ calls' = [calls EXCEPT ![c] = callStarted(call)]
             ELSE /\ effects' = acc.fx
                  /\ calls' = [calls EXCEPT ![c] = call]
                  /\ UNCHANGED active
  /\ UNCHANGED << connectionLimit, autoSubscribe, streams, created, streamMap,
                  subscribers >>

\* ---------------------------------------------------------------- subscribe
\* The host calls subscribe(stream) for a stream of the registry.
Subscribe(s) ==
  /\ invoked < MaxOps
  /\ invoked' = invoked + 1
  /\ s \in streams
  /\ LET acc == subscribe([ops |-> subOps, fx |-> << >>], s, 0)
     IN /\ subOps' = acc.ops
        /\ effects' = acc.fx
        /\ hist' = [hist EXCEPT !.quiet = FALSE,
                                !.issued = @ \cup issuedStreams(subOps, acc.ops)]
  /\ UNCHANGED << connectionLimit, autoSubscribe, active, streams, created,
                  streamMap, publishers, subscribers, published, calls >>

\* subscribe that emits the legacy event for every type.
subscribedEvents_Mutant(s) ==
  << Event("subscribeTo" \o properCase(videoType(s)), s),
     Event("startViewingSharedScreen", s) >>

\* subscribe, the events of a successful SDK subscribe to stream s.
subscribedEvents(s) ==
  << Event("subscribeTo" \o properCase(videoType(s)), s) >>
  \o (IF videoType(s) = "screen"
        THEN << Event("startViewingSharedScreen", s) >>
        ELSE << >>)

\* The callback of the pending session.subscribe op fires with success.
SubscribeSucceeded(op) ==
  /\ UNCHANGED invoked
  /\ op \in subOps
  /\ LET sub == [id |-> op.id, stream |-> op.stream]
         ops == subOps \ {op}
         c == op.owner
         fx == << Event("state.addSubscriber", op.stream) >>
               \o subscribedEvents(op.stream)
               \o << Log("subscribe", "success", op.stream),
                     Event("subscribe.resolve", op.stream) >>
     IN /\ subscribers' = addSubscriber(subscribers, sub)
        /\ streamMap' = addToStreamMap(streamMap, sub)
        /\ subOps' = ops
        /\ hist' = [hist EXCEPT !.announced = @ \cup ({op.stream} \cap streams)]
        /\ IF c >= 1 /\ calls[c].all = "pending" /\ allFulfilled(ops, c)
             THEN /\ effects' = fx \o << Event("startCall", c),
                                        Event("startCall.resolve", c) >>
                  /\ active' = TRUE
                  /\ calls' = [calls EXCEPT ![c] = callStarted(calls[c])]
             ELSE /\ effects' = fx
                  /\ UNCHANGED << active, calls >>
  /\ UNCHANGED << connectionLimit, autoSubscribe, streams, created, publishers,
                  published >>

\* The callback of the pending session.subscribe op fires with an error: the
\* subscribe promise rejects; a pending Promise.all of its startCall rejects
\* and the catch handler logs a message.
SubscribeFailed(op, error) ==
  /\ UNCHANGED << invoked, hist >>
  /\ op \in subOps
  /\ subOps' = subOps \ {op}
  /\ LET c == op.owner
         fx == << Log("subscribe", "fail", op.stream),
                  Reject("subscribe.reject", op.stream, error) >>
     IN IF c >= 1 /\ calls[c].all = "pending"
          THEN /\ effects' = Append(fx, Effect("logging.message", c,
                               "Failed to subscribe to all existing streams"))
               /\ calls' = [calls EXCEPT ![c].all = "rejected"]
          ELSE /\ effects' = fx
               /\ UNCHANGED calls
  /\ UNCHANGED << connectionLimit, autoSubscribe, active, streams, created,
                  streamMap, publishers, subscribers, published >>

\* The host calls unsubscribe(subscriber) with a registered subscriber.
Unsubscribe(sub) ==
  /\ invoked < MaxOps
  /\ invoked' = invoked + 1
  /\ UNCHANGED hist
  /\ sub \in subscribers
  /\ subscribers' = removeSubscriber(subscribers, sub)
  /\ streamMap' = removeFromStreamMap(streamMap, sub)
  /\ effects' = << Log("unsubscribe", "attempt", sub.stream),
                   Event("session.unsubscribe", sub.stream),
                   Event("state.removeSubscriber", sub.stream),
                   Log("unsubscribe", "success", sub.stream),
                   Event("unsubscribe.resolve", sub.stream) >>
  /\ UNCHANGED << connectionLimit, autoSubscribe, active, streams, created,
                  publishers, published, calls, subOps >>

\* ------------------------------------------------------- stream lifecycle
\* onStreamCreated without the active flag.
onStreamCreatedSubscribes_Mutant(act, auto) == auto

\* onStreamCreated: active && autoSubscribe && subscribe(stream).
onStreamCreatedSubscribes(act, auto) == act /\ auto

\* The session announces a new remote stream: it enters the stream registry
\* and the streamCreated listener runs.
StreamCreated(s) ==
  /\ invoked < MaxOps
  /\ invoked' = invoked + 1
  /\ s \in Streams \ created
  /\ streams' = streams \cup {s}
  /\ created' = created \cup {s}
  /\ LET acc == IF onStreamCreatedSubscribes(active, autoSubscribe)
                  THEN subscribe([ops |-> subOps, fx |-> << >>], s, 0)
                  ELSE [ops |-> subOps, fx |-> << >>]
     IN /\ subOps' = acc.ops
        /\ effects' = << Event("streamCreated", s) >> \o acc.fx
        /\ hist' = [hist EXCEPT !.issued = @ \cup issuedStreams(subOps, acc.ops)]
  /\ UNCHANGED << connectionLimit, autoSubscribe, active, streamMap, publishers,
                  subscribers, published, calls >>

\* onStreamDestroyed with the legacy event emitted last.
destroyedEvents_Mutant(s) ==
  << Event("state.removeStream", s),
     Event("unsubscribeFrom" \o properCase(videoType(s)), s) >>
  \o (IF videoType(s) = "screen"
        THEN << Event("endViewingSharedScreen", s) >>
        ELSE << >>)

\* onStreamDestroyed: what the listener does for stream s, in order.
destroyedEvents(s) ==
  << Event("state.removeStream", s) >>
  \o (IF videoType(s) = "screen"
        THEN << Event("endViewingSharedScreen", s) >>
        ELSE << >>)
  \o << Event("unsubscribeFrom" \o properCase(videoType(s)), s) >>

\* The session announces the end of a remote stream of the registry.
StreamDestroyed(s) ==
  /\ invoked < MaxOps
  /\ invoked' = invoked + 1
  /\ s \in streams
  /\ hist' = [hist EXCEPT !.issued = @ \ {s}, !.announced = @ \ {s}]
  /\ streams' = streams \ {s}
  /\ subscribers' = removeStreamSubscribers(subscribers, streamMap, s)
  /\ streamMap' = [streamMap EXCEPT ![s] = 0]
  /\ effects' = << Event("streamDestroyed", s) >> \o destroyedEvents(s)
  /\ UNCHANGED << connectionLimit, autoSubscribe, active, created, publishers,
                  published, calls, subOps >>

\* ------------------------------------------------------------------ endCall
\* forEach(id => unpublish(publishers[id])), in key order.
RECURSIVE unpublishAll(_)
unpublishAll(ids) ==
  IF ids = {} THEN << >>
  ELSE << Event("session.unpublish", Min(ids)) >>
       \o unpublishAll(ids \ {Min(ids)})

\* endCall that unpublishes the camera publishers only.
unpublished_Mutant(pubs) == unpublishAll(pubs.camera)

\* endCall: the session.unpublish calls, camera publishers first.
unpublished(pubs) == unpublishAll(pubs.camera) \o unpublishAll(pubs.screen)

\* endCall that forgets state.removeAllSubscribers.
EndCall_Mutant ==
  /\ invoked < MaxOps
  /\ invoked' = invoked + 1
  /\ hist' = [hist EXCEPT !.ended = TRUE, !.endedCalls = Len(calls),
                          !.quiet = TRUE]
  /\ effects' = << Log("endCall", "attempt", 0) >>
                \o unpublishAll(publishers.camera)
                \o unpublishAll(publishers.screen)
                \o << Event("state.removeAllPublishers", 0),
                      Log("endCall", "success", 0) >>
  /\ published' = published \ (publishers.camera \cup publishers.screen)
  /\ publishers' = NoPublishers
  /\ active' = FALSE
  /\ UNCHANGED << connectionLimit, autoSubscribe, streams, created, calls,
                  subOps, subscribers, streamMap >>

\* endCall: unpublish every registered publisher, clear the registries, mark
\* the call inactive.
EndCall ==
  /\ invoked < MaxOps
  /\ invoked' = invoked + 1
  /\ hist' = [hist EXCEPT !.ended = TRUE, !.endedCalls = Len(calls),
                          !.quiet = TRUE]
  /\ effects' = << Log("endCall", "attempt", 0) >>
                \o unpublished(publishers)
                \o << Event("state.removeAllPublishers", 0),
                      Event("state.removeAllSubscribers", 0),
                      Log("endCall", "success", 0) >>
  /\ published' = published \
       { unpublished(publishers)[i].id : i \in DOMAIN unpublished(publishers) }
  /\ publishers' = NoPublishers
  /\ subscribers' = {}
  /\ streamMap' = EmptyStreamMap
  /\ active' = FALSE
  /\ UNCHANGED << connectionLimit, autoSubscribe, streams, created, calls,
                  subOps >>

\* The id of the screen publisher another component registers.
ScreenPublisher == 0

\* Another component (screen sharing) registers and publishes its screen
\* publisher through the state collaborator and the session.
ScreenPublisherAdded ==
  /\ invoked < MaxOps
  /\ invoked' = invoked + 1
  /\ hist' = [hist EXCEPT !.quiet = FALSE]
  /\ ScreenPublisher \notin published
  /\ publishers' = [publishers EXCEPT !.screen = @ \cup {ScreenPublisher}]
  /\ published' = published \cup {ScreenPublisher}
  /\ effects' = << Event("screenPublisher", ScreenPublisher) >>
  /\ UNCHANGED << connectionLimit, autoSubscribe, active, streams, created,
                  streamMap, subscribers, calls, subOps >>

\* --------------------------------------------------------------------- init
\* validateOptions.requiredOptions, in order.
requiredOptions == << "session", "publishers", "subscribers", "streams", "accPack" >>

\* The options objects given to init: present holds the required options
\* that are set.
InitOptions ==
  [ present : SUBSET { requiredOptions[i] : i \in DOMAIN requiredOptions },
    connectionLimit : 0..MaxLimit,
    autoSubscribe : {"absent", "true", "false"} ]

\* validateOptions: one logging.error per required option that is missing.
missingLogged(options) ==
  LET missing == SelectSeq(requiredOptions, LAMBDA o : o \notin options.present)
  IN [ i \in DOMAIN missing |->
         Effect("logging.error", 0, missing[i] \o " is a required option.") ]

TypeError == [code |-> 0, message |-> "TypeError: accPack is undefined"]

\* createEventListeners: accPack.on(...) throws when accPack is undefined; an
\* exception in the executor rejects the promise init returns.
createEventListeners(options) ==
  IF "accPack" \in options.present
    THEN << Event("accPack.on.streamCreated", 0),
            Event("accPack.on.streamDestroyed", 0),
            Event("init.resolve", 0) >>
    ELSE << Reject("init.reject", 0, TypeError) >>

\* The module before init: the module variables are undefined (falsy).
Uninitialised ==
  /\ connectionLimit = 0
  /\ autoSubscribe = FALSE
  /\ active = FALSE
  /\ streams = {}
  /\ created = {}
  /\ streamMap = EmptyStreamMap
  /\ publishers = NoPublishers
  /\ subscribers = {}
  /\ published = {}
  /\ calls = << >>
  /\ subOps = {}
  /\ invoked = 0
  /\ hist = NoHistory
  /\ effects = << >>

\* The host calls init(options).
InitModule(options) ==
  /\ invoked < MaxOps
  /\ invoked' = invoked + 1
  /\ connectionLimit' = validateOptions(options).connectionLimit
  /\ autoSubscribe' = validateOptions(options).autoSubscribe
  /\ effects' = << Event("init", 0) >> \o missingLogged(options)
                  \o createEventListeners(options)
  /\ UNCHANGED << active, streams, created, streamMap, publishers, subscribers,
                  published, calls, subOps, hist >>

InitNext == \E options \in InitOptions : InitModule(options)

InitSpec == Uninitialised /\ [][InitNext]_vars

\* --------------------------------------------------------------------- Next
Next ==
  \/ StartCall
  \/ \E c \in DOMAIN calls : PublisherCreated(c)
  \/ \E c \in DOMAIN calls, error \in SdkErrors : PublisherFailed(c, error)
  \/ \E s \in Streams : Subscribe(s)
  \/ \E op \in subOps : SubscribeSucceeded(op)
  \/ \E op \in subOps : SubscribeFailed(op, SubscribeError)
  \/ \E sub \in subscribers : Unsubscribe(sub)
  \/ \E s \in Streams : StreamCreated(s)
  \/ \E s \in Streams : StreamDestroyed(s)
  \/ EndCall
  \/ ScreenPublisherAdded

Spec == Init /\ [][Next]_vars


\* ------------------------------------------------------------------ claims
HasEffect(name) == \E i \in DOMAIN effects : effects[i].name = name

\* The last handler was the one whose first effect is `name`.
Ran(name) == effects # << >> /\ effects[1].name = name

\* i < j, effects[i] is `first` and effects[j] is `second`.
Before(first, second) ==
  \E i, j \in DOMAIN effects :
    i < j /\ effects[i].name = first /\ effects[j].name = second

AtLimit ==
  connectionLimit >= 1 /\ Cardinality(cameraStreams(streams)) = connectionLimit

\* C1: a startCall invoked with a connection limit N >= 1 and N camera
\* streams in the stream registry rejects without attempting to publish: no
\* publisher is created, the publisher registry and the session's published
\* set are unchanged, and the active flag is unchanged.
C1_LimitRejectsWithoutPublish ==
  [][ (Len(calls') = Len(calls) + 1 /\ AtLimit)
        => /\ calls'[Len(calls')].promise = "rejected"
           /\ calls'[Len(calls')].publish = "none"
           /\ \A i \in DOMAIN effects' :
                effects'[i].name \notin
                  {"OT.initPublisher", "state.addPublisher", "session.publish"}
           /\ \E i \in DOMAIN effects' : effects'[i].name = "startCall.reject"
           /\ publishers' = publishers
           /\ published' = published
           /\ active' = active ]_vars

C1_Witness == Ran("log.startCall.attempt") /\ AtLimit /\ HasEffect("startCall.reject")

\* C2: for every stream, at most one session.subscribe is ever outstanding or
\* completed at a time: a subscribe for a stream that is subscribed, or being
\* subscribed, makes no second SDK call.
C2_OneSdkSubscribePerStream ==
  \A s \in Streams :
    Cardinality({ op \in subOps : op.stream = s })
      + (IF streamMap[s] # 0 THEN 1 ELSE 0) <= 1

\* C3: after endCall the camera and screen publisher registries and the
\* subscriber registry are empty and the active flag is false.
C3_EndCallClears ==
  Ran("log.endCall.attempt")
    => /\ publishers.camera = {}
       /\ publishers.screen = {}
       /\ subscribers = {}
       /\ ~active

C3_Witness ==
  /\ Ran("log.endCall.attempt")
  /\ HasEffect("session.unpublish")
  /\ \E c \in DOMAIN calls : calls[c].started

\* C4: the streamCreated listener calls subscribe for the new stream exactly
\* when the call is active and auto-subscribe is enabled.
C4_AutoSubscribeIffActiveAndEnabled ==
  Ran("streamCreated")
    => (HasEffect("log.subscribe.attempt") <=> (active /\ autoSubscribe))

C4_Witness ==
  Ran("streamCreated") /\ active /\ ~autoSubscribe
    /\ ~HasEffect("log.subscribe.attempt")

\* C5: a streamDestroyed event for a screen stream removes the stream from the
\* registry, then emits endViewingSharedScreen, then unsubscribeFromScreen; for
\* a camera stream it emits unsubscribeFromCamera after the removal and never
\* endViewingSharedScreen.
C5_StreamDestroyedEvents ==
  Ran("streamDestroyed")
    => LET s == effects[1].id
       IN /\ s \notin streams
          /\ videoType(s) = "screen"
               => /\ Before("state.removeStream", "endViewingSharedScreen")
                  /\ Before("endViewingSharedScreen", "unsubscribeFromScreen")
                  /\ ~HasEffect("unsubscribeFromCamera")
          /\ videoType(s) = "camera"
               => /\ Before("state.removeStream", "unsubscribeFromCamera")
                  /\ ~HasEffect("endViewingSharedScreen")
                  /\ ~HasEffect("unsubscribeFromScreen")

C5_Witness ==
  Ran("streamDestroyed") /\ videoType(effects[1].id) = "screen"
    /\ HasEffect("unsubscribeFromScreen")

\* C6: when publisher creation fails, the error event carries "Check your
\* network connection" for SDK error code 1010 and the SDK error's own message
\* for any other code; the publish promise rejects with the SDK error; the
\* publisher is neither registered nor published.
C6_PublisherFailure ==
  \A i \in DOMAIN effects :
    effects[i].name = "publish.reject"
      => LET c == effects[i].id
             error == effects[i].error
         IN /\ error \in SdkErrors
            /\ \E j \in DOMAIN effects :
                 /\ effects[j].name = "error"
                 /\ effects[j].msg =
                      IF error.code = 1010
                        THEN "Check your network connection"
                        ELSE error.message
            /\ calls[c].publish = "rejected"
            /\ c \notin publishers.camera
            /\ c \notin published
            /\ ~HasEffect("state.addPublisher")
            /\ ~HasEffect("session.publish")

C6_Witness ==
  \E i \in DOMAIN effects :
    effects[i].name = "publish.reject" /\ effects[i].error.code = 1010

\* C7: every failure is surfaced as a rejection of the host-invoked operation
\* and as an error event: a startCall whose publisher creation failed has its
\* promise rejected, and the handler that rejects a subscribe or a startCall
\* also emits an error event.
C7_FailuresSurfaced ==
  /\ \A c \in DOMAIN calls :
       calls[c].publish = "rejected" => calls[c].promise = "rejected"
  /\ (HasEffect("publish.reject") \/ HasEffect("subscribe.reject")
        \/ HasEffect("startCall.reject")) => HasEffect("error")

\* C8: a startCall whose publish succeeded and whose initial subscriptions
\* have all settled has started (startCall emitted, promise resolved), also
\* when some of them failed.
C8_StartsDespiteFailedSubscription ==
  \A c \in DOMAIN calls :
    (calls[c].publish = "resolved" /\ OpsOf(subOps, c) = {})
      => (calls[c].started /\ calls[c].promise = "resolved")

\* C9: when the startCall event of a call is emitted, and ever after, no
\* initial subscription of that call is pending its SDK callback.
C9_StartCallAfterAllSettled ==
  /\ \A i \in DOMAIN effects :
       effects[i].name = "startCall" => OpsOf(subOps, effects[i].id) = {}
  /\ \A c \in DOMAIN calls : calls[c].started => OpsOf(subOps, c) = {}

C9_Witness ==
  HasEffect("startCall") /\ HasEffect("state.addSubscriber") /\ subOps # {}

\* C10: once every SDK callback of a startCall has fired (publisher creation
\* and each initial subscribe), the promise it returned is settled.
C10_StartCallSettles ==
  \A c \in DOMAIN calls :
    (calls[c].publish \in {"none", "resolved", "rejected"}
       /\ OpsOf(subOps, c) = {})
      => calls[c].promise \in {"resolved", "rejected"}

\* The same tests on the effects fx of a step.
HasIn(fx, name) == \E i \in DOMAIN fx : fx[i].name = name

RanIn(fx, name) == fx # << >> /\ fx[1].name = name

\* The names among `names` in fx, in order.
NamesIn(fx, names) ==
  LET sel == SelectSeq(fx, LAMBDA e : e.name \in names)
  IN [i \in DOMAIN sel |-> sel[i].name]

\* C11: endCall calls session.unsubscribe for every subscriber that is in the
\* subscriber registry when it is invoked.
C11_EndCallUnsubscribesAll ==
  [][ RanIn(effects', "log.endCall.attempt")
        => \A sub \in subscribers :
             \E i \in DOMAIN effects' :
               /\ effects'[i].name = "session.unsubscribe"
               /\ effects'[i].id = sub.stream ]_vars

\* C12: init never rejects: whatever required options are missing, it
\* resolves.
C12_InitFailsOpen ==
  Ran("init") => (HasEffect("init.resolve") /\ ~HasEffect("init.reject"))

\* C13: endCall calls session.unpublish for every publisher that is in the
\* camera or screen registry when it is invoked, and none of them is
\* published to the session afterwards.
C13_EndCallUnpublishesAll ==
  [][ RanIn(effects', "log.endCall.attempt")
        => \A p \in publishers.camera \cup publishers.screen :
             /\ p \notin published'
             /\ \E i \in DOMAIN effects' :
                  /\ effects'[i].name = "session.unpublish"
                  /\ effects'[i].id = p ]_vars

C13_Witness ==
  /\ Ran("log.endCall.attempt")
  /\ \E i, j \in DOMAIN effects :
       /\ effects[i].name = "session.unpublish" /\ effects[i].id = ScreenPublisher
       /\ effects[j].name = "session.unpublish" /\ effects[j].id # ScreenPublisher

SubscribeCalls == {"log.subscribe.attempt", "session.subscribe"}

\* C14: when publishing succeeds, the publisher is registered and handed to
\* session.publish before any subscribe of the call; subscribe is called once
\* for each stream of the registry and for no other, and session.subscribe for
\* those of them that have no subscriber yet. When publishing fails, no
\* subscribe is called.
C14_PublishThenSubscribeRegistry ==
  /\ HasEffect("publish.resolve")
       => /\ Before("state.addPublisher", "session.publish")
          /\ \A i, j \in DOMAIN effects :
               (effects[i].name = "session.publish"
                  /\ effects[j].name \in SubscribeCalls) => i < j
          /\ { effects[i].id :
                 i \in { j \in DOMAIN effects :
                           effects[j].name = "log.subscribe.attempt" } } = streams
          /\ Len(NamesIn(effects, {"log.subscribe.attempt"})) = Cardinality(streams)
          /\ { effects[i].id :
                 i \in { j \in DOMAIN effects :
                           effects[j].name = "session.subscribe" } }
               = { s \in streams : streamMap[s] = 0 }
  /\ HasEffect("publish.reject")
       => \A i \in DOMAIN effects : effects[i].name \notin SubscribeCalls

C14_Witness ==
  /\ HasEffect("publish.resolve")
  /\ Cardinality(streams) = 2
  /\ Len(NamesIn(effects, {"session.subscribe"})) = 2

SubscribedEventNames ==
  {"subscribeToCamera", "subscribeToScreen", "startViewingSharedScreen"}

\* C15: the callback of a successful session.subscribe registers the
\* subscriber before it emits anything, then emits subscribeToCamera alone for
\* a camera stream, subscribeToScreen followed by startViewingSharedScreen for
\* a screen stream; the callback of a failed one leaves the registry as it
\* was, emits none of these events and rejects with the SDK error.
C15_SubscribeCallback ==
  [][ LET fx == effects'
      IN /\ HasIn(fx, "state.addSubscriber")
              => LET s == fx[1].id
                 IN /\ fx[1].name = "state.addSubscriber"
                    /\ \E sub \in subscribers' \ subscribers : sub.stream = s
                    /\ streamMap'[s] # 0
                    /\ NamesIn(fx, SubscribedEventNames) =
                         IF videoType(s) = "camera"
                           THEN << "subscribeToCamera" >>
                           ELSE << "subscribeToScreen",
                                   "startViewingSharedScreen" >>
         /\ HasIn(fx, "subscribe.reject")
              => /\ subscribers' = subscribers
                 /\ streamMap' = streamMap
                 /\ NamesIn(fx, SubscribedEventNames) = << >>
                 /\ \E i \in DOMAIN fx :
                      /\ fx[i].name = "subscribe.reject"
                      /\ fx[i].error = SubscribeError ]_vars

C15_Witness ==
  HasEffect("state.addSubscriber") /\ HasEffect("startViewingSharedScreen")

\* C16: with auto-subscribe enabled, when a startCall completes, a
\* session.subscribe has been issued for every stream of the registry.
C16_NoStreamMissed ==
  (autoSubscribe /\ HasEffect("startCall")) => streams \subseteq hist.issued

\* C17: once endCall has run, the active flag becomes true only by a
\* startCall invoked after the last endCall.
C17_ActiveOnlyByLaterStartCall ==
  [][ (hist.ended /\ ~active /\ active')
        => \E i \in DOMAIN effects' :
             /\ effects'[i].name = "startCall"
             /\ effects'[i].id > hist.endedCalls ]_vars

\* C18: after endCall, as long as no startCall and no subscribe has been
\* invoked (and no other component has published), the publisher and
\* subscriber registries are empty and nothing is published to the session.
C18_EmptyAfterEndCall ==
  (hist.ended /\ hist.quiet)
    => /\ publishers = NoPublishers
       /\ subscribers = {}
       /\ published = {}

\* C19: at most one camera publisher of this module is published to the
\* session at any time.
C19_OneCameraPublisher ==
  Cardinality(published \ {ScreenPublisher}) <= 1

\* C20: a stream whose destruction is announced by an unsubscribeFrom event
\* has had a subscribeTo event emitted for it.
C20_UnsubscribeAfterSubscribe ==
  [][ (RanIn(effects', "streamDestroyed")
         /\ (HasIn(effects', "unsubscribeFromCamera")
               \/ HasIn(effects', "unsubscribeFromScreen")))
        => effects'[1].id \in hist.announced ]_vars

====
